---------------------------- MODULE Spec2Model ----------------------------
(***************************************************************************)
(* A model of the media-to-restaurant resolution pipeline of mapbites:     *)
(* the process_media edge function (OCR per frame, candidate extraction,   *)
(* place search, similarity scoring, confirm/review decision, persistence),*)
(* the process-ocr edge function and the client operations that write or   *)
(* poll the media table and extract the frames of a video.                 *)
(*                                                                         *)
(* Text is a sequence of characters; a character is a one-character string *)
(* (the two non-ASCII characters of the keyword list are written "sqrt"    *)
(* and "copy").  A score is an exact fraction <<num, den>> in lowest terms.*)
(***************************************************************************)
EXTENDS Integers, Sequences, FiniteSets, TLC

(***************************************************************************)
(* Characters and the JavaScript string primitives the functions use.      *)
(***************************************************************************)
UpperChars == <<"A","B","C","D","E","F","G","H","I","J","K","L","M",
                "N","O","P","Q","R","S","T","U","V","W","X","Y","Z">>

LowerChars == <<"a","b","c","d","e","f","g","h","i","j","k","l","m",
                "n","o","p","q","r","s","t","u","v","w","x","y","z">>

DigitChars == {"0","1","2","3","4","5","6","7","8","9"}

IsUpper(c) == \E i \in 1..26 : UpperChars[i] = c

IsLower(c) == \E i \in 1..26 : LowerChars[i] = c

\* \s of a JavaScript regular expression, and what String.trim removes
IsSpace(c) == c \in {" ", "\n", "\t", "\r"}

\* \w of a JavaScript regular expression
IsWord(c) == IsUpper(c) \/ IsLower(c) \/ c \in DigitChars \/ c = "_"

toLowerChar(c) ==
  IF IsUpper(c) THEN LowerChars[CHOOSE i \in 1..26 : UpperChars[i] = c] ELSE c

\* String.prototype.toLowerCase
toLowerCase(s) == [i \in 1..Len(s) |-> toLowerChar(s[i])]

\* String.prototype.includes
includes(s, sub) ==
  \E i \in 0..(Len(s) - Len(sub)) :
     \A k \in 1..Len(sub) : s[i + k] = sub[k]

RECURSIVE trimStart(_)
trimStart(s) ==
  IF s # <<>> /\ IsSpace(Head(s)) THEN trimStart(Tail(s)) ELSE s

RECURSIVE trimEnd(_)
trimEnd(s) ==
  IF s # <<>> /\ IsSpace(s[Len(s)]) THEN trimEnd(SubSeq(s, 1, Len(s) - 1)) ELSE s

\* String.prototype.trim
trim(s) == trimEnd(trimStart(s))

\* String.prototype.split(sep) for a one-character separator: the pieces
\* between the separators, empty pieces kept
RECURSIVE splitFrom(_, _, _)
splitFrom(s, sep, cur) ==
  IF s = <<>> THEN <<cur>>
  ELSE IF Head(s) = sep THEN <<cur>> \o splitFrom(Tail(s), sep, <<>>)
  ELSE splitFrom(Tail(s), sep, Append(cur, Head(s)))

split(s, sep) == splitFrom(s, sep, <<>>)

\* Array.prototype.join(sep) of a sequence of texts
RECURSIVE join(_, _)
join(parts, sep) ==
  IF parts = <<>> THEN <<>>
  ELSE IF Len(parts) = 1 THEN parts[1]
  ELSE parts[1] \o sep \o join(Tail(parts), sep)

\* Array.prototype.filter(line => line.length > 0)
RECURSIVE dropEmpty(_)
dropEmpty(seq) ==
  IF seq = <<>> THEN <<>>
  ELSE IF Len(Head(seq)) > 0 THEN <<Head(seq)>> \o dropEmpty(Tail(seq))
  ELSE dropEmpty(Tail(seq))

\* Array.prototype.slice(0, n)
slice0(seq, n) == SubSeq(seq, 1, IF Len(seq) < n THEN Len(seq) ELSE n)

\* uniqueInOrder that keeps the last occurrence of every value
RECURSIVE uniqueLastInOrder(_, _)
uniqueLastInOrder(seq, seen) ==
  IF seq = <<>> THEN <<>>
  ELSE IF \E i \in 2..Len(seq) : seq[i] = Head(seq)
       THEN uniqueLastInOrder(Tail(seq), seen)
       ELSE <<Head(seq)>> \o uniqueLastInOrder(Tail(seq), seen)

\* [...new Set(seq)]: the first occurrence of every value, in order
RECURSIVE uniqueInOrder(_, _)
uniqueInOrder(seq, seen) ==
  IF seq = <<>> THEN <<>>
  ELSE IF Head(seq) \in seen THEN uniqueInOrder(Tail(seq), seen)
  ELSE <<Head(seq)>> \o uniqueInOrder(Tail(seq), seen \cup {Head(seq)})


(***************************************************************************)
(* Exact fractions: a score is <<num, den>> with den > 0, in lowest terms. *)
(***************************************************************************)
RECURSIVE GCD(_, _)
GCD(a, b) == IF b = 0 THEN a ELSE GCD(b, a % b)

Frac(n, d) == LET g == GCD(n, d) IN <<n \div g, d \div g>>

FracAdd(x, y) == Frac(x[1] * y[2] + y[1] * x[2], x[2] * y[2])

FracGE(x, y) == x[1] * y[2] >= y[1] * x[2]

FracGT(x, y) == x[1] * y[2] > y[1] * x[2]

FracMax(x, y) == IF FracGE(x, y) THEN x ELSE y

Zero == <<0, 1>>

One == <<1, 1>>

\* the bonus 0.1 of scorePlaceCandidates
Bonus == <<1, 10>>

\* the confirmation threshold 0.75 of the process_media handler
Threshold == <<3, 4>>

(***************************************************************************)
(* The pure functions of supabase/functions/process_media/index.ts.        *)
(***************************************************************************)
FOOD_KEYWORDS == <<
  <<"b","u","r","g","e","r">>,
  <<"p","i","z","z","a">>,
  <<"s","u","s","h","i">>,
  <<"c","a","f","sqrt","copy">>,
  <<"c","a","f","e">>,
  <<"b","a","k","e","r","y">>,
  <<"b","a","r">>,
  <<"g","r","i","l","l">>,
  <<"k","e","b","a","b">>,
  <<"r","a","m","e","n">>,
  <<"t","a","c","o">>,
  <<"s","t","e","a","k">>,
  <<"b","i","s","t","r","o">>,
  <<"b","r","u","n","c","h">>,
  <<"r","e","s","t","a","u","r","a","n","t">>,
  <<"d","i","n","e","r">>,
  <<"e","a","t","e","r","y">>,
  <<"k","i","t","c","h","e","n">>,
  <<"f","o","o","d">>,
  <<"d","i","n","i","n","g">>,
  <<"c","u","i","s","i","n","e">> >>

\* FOOD_KEYWORDS.some(keyword => s.includes(keyword))
hasKeyword(s) == \E k \in 1..Len(FOOD_KEYWORDS) : includes(s, FOOD_KEYWORDS[k])

\* /^[A-Z][a-z]+(\s+[A-Z][a-z]+)*$/.test(line), run as the automaton of the
\* expression: "U" expects a capital, "L1" the first small letter of a word,
\* "L" is inside a word (accepting), "S" is inside the blanks between words
RECURSIVE titleRun(_, _)
titleRun(s, st) ==
  IF s = <<>> THEN st = "L"
  ELSE LET c == Head(s) IN
    CASE st = "U"  -> IsUpper(c) /\ titleRun(Tail(s), "L1")
      [] st = "L1" -> IsLower(c) /\ titleRun(Tail(s), "L")
      [] st = "L"  -> \/ IsLower(c) /\ titleRun(Tail(s), "L")
                      \/ IsSpace(c) /\ titleRun(Tail(s), "S")
      [] st = "S"  -> \/ IsSpace(c) /\ titleRun(Tail(s), "S")
                      \/ IsUpper(c) /\ titleRun(Tail(s), "L1")

isTitleCase(line) == titleRun(line, "U")

\* text.split('\n').map(line => line.trim()).filter(line => line.length > 0)
linesOf(text) ==
  LET raw == split(text, "\n")
  IN  dropEmpty([i \in 1..Len(raw) |-> trim(raw[i])])

\* qualifies without the exclusion of links
qualifiesWithLinks(line) ==
  LET hasFoodKeyword == hasKeyword(toLowerCase(line))
      reasonableLength == Len(line) >= 3 /\ Len(line) <= 50
      hasSocialIndicator == includes(line, <<"@">>) \/ includes(line, <<"#">>)
  IN  hasFoodKeyword \/ (isTitleCase(line) /\ reasonableLength) \/ hasSocialIndicator

\* the condition under which extractPOICandidates pushes a line
qualifies(line) ==
  LET hasFoodKeyword == hasKeyword(toLowerCase(line))
      reasonableLength == Len(line) >= 3 /\ Len(line) <= 50
      hasSocialIndicator == includes(line, <<"@">>) \/ includes(line, <<"#">>)
  IN  /\ hasFoodKeyword \/ (isTitleCase(line) /\ reasonableLength) \/ hasSocialIndicator
      /\ ~includes(line, <<"h","t","t","p">>)
      /\ ~includes(line, <<"w","w","w">>)

RECURSIVE pushQualifying(_)
pushQualifying(lines) ==
  IF lines = <<>> THEN <<>>
  ELSE IF qualifies(Head(lines)) THEN <<Head(lines)>> \o pushQualifying(Tail(lines))
  ELSE pushQualifying(Tail(lines))

extractPOICandidates(text) == uniqueInOrder(pushQualifying(linesOf(text)), {})

\* one row of the table of levenshteinDistance: row j from row j - 1, filled
\* from the left; a row is the sequence matrix[j][0..len1] (index i + 1)
RECURSIVE fillRow(_, _, _, _)
fillRow(prev, str1, ch, cur) ==
  IF Len(cur) = Len(prev) THEN cur
  ELSE LET i == Len(cur)
           indicator == IF str1[i] = ch THEN 0 ELSE 1
           a == cur[i] + 1
           b == prev[i + 1] + 1
           c == prev[i] + indicator
           m == IF a <= b /\ a <= c THEN a ELSE IF b <= c THEN b ELSE c
       IN  fillRow(prev, str1, ch, Append(cur, m))

RECURSIVE levRows(_, _, _, _)
levRows(prev, str1, str2, j) ==
  IF j > Len(str2) THEN prev
  ELSE levRows(fillRow(prev, str1, str2[j], <<j>>), str1, str2, j + 1)

levenshteinDistance(str1, str2) ==
  levRows([i \in 1..(Len(str1) + 1) |-> i - 1], str1, str2, 1)[Len(str1) + 1]

\* calculateSimilarity without the case folding
calculateSimilarityCased(str1, str2) ==
  LET longer == IF Len(str1) > Len(str2) THEN str1 ELSE str2
      shorter == IF Len(str1) > Len(str2) THEN str2 ELSE str1
  IN  IF str1 = str2 THEN One
      ELSE IF Len(longer) = 0 THEN One
      ELSE Frac(Len(longer) - levenshteinDistance(longer, shorter), Len(longer))

\* calculateSimilarity dividing by the length of its first argument
calculateSimilarityByFirst(str1, str2) ==
  LET s1 == toLowerCase(str1)
      s2 == toLowerCase(str2)
  IN  IF s1 = s2 THEN One
      ELSE IF Len(s1) = 0 THEN Zero
      ELSE IF levenshteinDistance(s1, s2) >= Len(s1) THEN Zero
      ELSE Frac(Len(s1) - levenshteinDistance(s1, s2), Len(s1))

calculateSimilarity(str1, str2) ==
  LET s1 == toLowerCase(str1)
      s2 == toLowerCase(str2)
      longer == IF Len(s1) > Len(s2) THEN s1 ELSE s2
      shorter == IF Len(s1) > Len(s2) THEN s2 ELSE s1
  IN  IF s1 = s2 THEN One
      ELSE IF Len(longer) = 0 THEN One
      ELSE Frac(Len(longer) - levenshteinDistance(longer, shorter), Len(longer))

\* an optional value (undefined or null in the source) is None or Some(v)
None == <<>>

Some(v) == <<v>>

IsSome(o) == o # <<>>

Get(o) == o[1]

\* a place of the provider: rating is optional and in tenths (45 is 4.5),
\* types is an optional sequence of texts
\* place.types?.some(type => FOOD_KEYWORDS.some(keyword => type.includes(keyword)))
foodType(place) ==
  /\ IsSome(place.types)
  /\ \E t \in 1..Len(Get(place.types)) : hasKeyword(Get(place.types)[t])

\* a rating bonus that a rating of exactly 4.0 earns as well
highRatingInclusive(place) == IsSome(place.rating) /\ Get(place.rating) >= 40

\* place.rating && place.rating > 4.0
highRating(place) == IsSome(place.rating) /\ Get(place.rating) > 40

\* the score of one candidate against one place (the body of the inner loop)
candidateScore(candidate, place) ==
  LET similarity == calculateSimilarity(candidate, place.name)
      s1 == IF foodType(place) THEN FracAdd(similarity, Bonus) ELSE similarity
  IN  IF highRating(place) THEN FracAdd(s1, Bonus) ELSE s1

RECURSIVE maxScore(_, _, _)
maxScore(candidates, place, acc) ==
  IF candidates = <<>> THEN acc
  ELSE maxScore(Tail(candidates), place,
                FracMax(acc, candidateScore(Head(candidates), place)))

withScore(place, score) ==
  [name |-> place.name, address |-> place.address, lat |-> place.lat,
   lng |-> place.lng, place_id |-> place.place_id, rating |-> place.rating,
   types |-> place.types, score |-> score]

\* an insertion that puts an element in front of the elements of equal score
RECURSIVE insertBeforeTies(_, _)
insertBeforeTies(sorted, x) ==
  IF sorted = <<>> THEN <<x>>
  ELSE IF FracGT(Head(sorted).score, x.score)
       THEN <<Head(sorted)>> \o insertBeforeTies(Tail(sorted), x)
       ELSE <<x>> \o sorted

\* Array.prototype.sort((a, b) => b.score - a.score): stable, so an element
\* goes behind every element whose score is not smaller
RECURSIVE insertByScore(_, _)
insertByScore(sorted, x) ==
  IF sorted = <<>> THEN <<x>>
  ELSE IF FracGE(Head(sorted).score, x.score)
       THEN <<Head(sorted)>> \o insertByScore(Tail(sorted), x)
       ELSE <<x>> \o sorted

RECURSIVE sortByScore(_, _)
sortByScore(seq, acc) ==
  IF seq = <<>> THEN acc
  ELSE sortByScore(Tail(seq), insertByScore(acc, Head(seq)))

scorePlaceCandidates(candidates, places) ==
  sortByScore([i \in 1..Len(places) |->
                 withScore(places[i], maxScore(candidates, places[i], Zero))],
              <<>>)

\* allText.replace(/[^\w\s]/g, ' ').replace(/\s+/g, ' ').trim()
RECURSIVE collapseSpaces(_, _)
collapseSpaces(s, inRun) ==
  IF s = <<>> THEN <<>>
  ELSE IF IsSpace(Head(s))
       THEN (IF inRun THEN <<>> ELSE <<" ">>) \o collapseSpaces(Tail(s), TRUE)
       ELSE <<Head(s)>> \o collapseSpaces(Tail(s), FALSE)

normalizeText(allText) ==
  LET blanked == [i \in 1..Len(allText) |->
                    IF IsWord(allText[i]) \/ IsSpace(allText[i])
                    THEN allText[i] ELSE " "]
  IN  trim(collapseSpaces(blanked, FALSE))

\* ocrResults.map(r => r.text).join(' ').toLowerCase()
aggregateText(ocrResults) ==
  toLowerCase(join([i \in 1..Len(ocrResults) |-> ocrResults[i].text], <<" ">>))



(***************************************************************************)
(* Bounds of the model and the inputs the environment draws from.          *)
(***************************************************************************)
\* the most frame URLs of one request
MaxFrames == 2

\* the most process_media requests received
MaxRuns == 2

\* the most media rows uploaded
MaxMedia == 1

\* the most process-ocr requests received
MaxOcrRuns == 1

\* the handler instances that can run process_media
Slots == {1, 2}

\* the instances a specification without concurrent requests uses
SeqSlots == {1}

\* identifiers: <<"uuid", i>> is a well-formed UUID, <<"text", i>> is not;
\* <<"https", i>> is a well-formed URL, <<"words", i>> is not
Uuid(i) == <<"uuid", i>>

IsUuid(v) == v[1] = "uuid"

\* IsUrl that takes any string
IsUrlAny(u) == TRUE

IsUrl(u) == u[1] = "https"

FrameUrl(i) == <<"https", i>>

\* a well-formed UUID naming no media row
UnknownId == Uuid(0)

MediaIds == {Uuid(i) : i \in 1..MaxMedia}

Users == {"u1"}

TextBar == <<"b","a","r">>

TextBarAt == <<"B","a","r","\n","@","a">>

TextJoe == <<"J","o","e">>

OcrTexts == {TextBar, TextBarAt, TextJoe}

\* a place as the Places API returns it
RawPlace(name, id, rating, types) ==
  [name |-> name, formatted_address |-> <<"addr", id>>,
   geometry |-> [location |-> [lat |-> id, lng |-> 0 - id]],
   place_id |-> <<"pid", id>>, rating |-> rating, types |-> types]

RawBar == RawPlace(<<"B","a","r">>, 1, Some(45), Some(<< <<"b","a","r">>, <<"p","u","b">> >>))

RawBars == RawPlace(<<"B","a","r","s">>, 2, None, None)

RawBarns == RawPlace(<<"B","a","r","n","s">>, 3, Some(40), Some(<< <<"s","t","o","r","e">> >>))

\* against the candidate "bar": Bars scores exactly 3/4, Barns 3/5 (a rating
\* of 4.0 and no food type earn nothing), Bar 1 + 1/10 + 1/10
ResultLists == { <<RawBars, RawBarns>>, <<RawBarns, RawBar>> }

\* what one call of the Vision API can come to
OcrOutcomes ==
  {[kind |-> k, textAnnotations |-> <<>>] : k \in {"nokey", "fetch_failed", "not_ok", "ok"}}
  \cup {[kind |-> "ok",
         textAnnotations |-> <<[description |-> t, confidence |-> 1]>>] : t \in OcrTexts}

\* what one call of the Places text search can come to
SearchOutcomes ==
  {[kind |-> k, status |-> "", results |-> <<>>] : k \in {"nokey", "fetch_failed", "not_ok"}}
  \cup {[kind |-> "ok", status |-> "ZERO_RESULTS", results |-> <<>>]}
  \cup {[kind |-> "ok", status |-> "OK", results |-> l] : l \in ResultLists}

NoLocality == [country |-> None, city |-> None]

Lund == [country |-> Some(<<"S","E">>), city |-> Some(<<"L","u","n","d">>)]

ValidBody(m, n, loc) ==
  [json |-> TRUE, media_id |-> Some(m),
   frame_urls |-> Some([i \in 1..n |-> FrameUrl(i)]),
   country |-> loc.country, city |-> loc.city]

\* the request bodies that pass ProcessMediaSchema: every media id with
\* every number of frames, and one request that carries a locality hint
ValidBodies ==
  {ValidBody(m, n, NoLocality) : m \in MediaIds, n \in 0..MaxFrames}
  \cup {ValidBody(Uuid(1), 1, Lund)}

\* request bodies the schema refuses (media_id no UUID, an entry of
\* frame_urls no URL, a field missing) and a body that is no JSON
MalformedBodies ==
  {[json |-> TRUE, media_id |-> Some(<<"text", 0>>),
    frame_urls |-> Some(<<FrameUrl(1)>>), country |-> None, city |-> None],
   [json |-> TRUE, media_id |-> Some(UnknownId),
    frame_urls |-> Some(<<FrameUrl(1), <<"words", 0>> >>), country |-> None, city |-> None],
   [json |-> TRUE, media_id |-> None,
    frame_urls |-> Some(<<FrameUrl(1)>>), country |-> None, city |-> None],
   [json |-> TRUE, media_id |-> Some(UnknownId),
    frame_urls |-> None, country |-> None, city |-> None],
   [json |-> FALSE, media_id |-> None,
    frame_urls |-> None, country |-> None, city |-> None]}

NoBody == [json |-> FALSE, media_id |-> None, frame_urls |-> None,
           country |-> None, city |-> None]

Requests ==
  {[method |-> "POST", body |-> b] : b \in ValidBodies \cup MalformedBodies}
  \cup {[method |-> "GET", body |-> NoBody]}

(***************************************************************************)
(* State.                                                                  *)
(***************************************************************************)
VARIABLES
  media,        \* the media table: id -> None or Some(row)
  restaurants,  \* the restaurants table: a sequence of rows, id = index
  place_cache,  \* the place_cache table: a sequence of rows
  runs,         \* per handler instance, the invocation of process_media
  started,      \* process_media requests received so far
  ocrRun,       \* the invocation of process-ocr
  ocrStarted,   \* process-ocr requests received so far
  call,         \* one application of a function of the sources: what it is
                \* applied to and, once applied, what it returned
  poll          \* the call of pollOCRStatus of the client

vars == <<media, restaurants, place_cache, runs, started, ocrRun, ocrStarted, call, poll>>

\* pollOCRStatus has not been called; processed records whether the item
\* existed and process-ocr had answered for it when the call began
NoPoll == [pc |-> "idle", mediaId |-> <<>>, attempt |-> 0, processed |-> FALSE,
           status |-> "", ocr_text |-> None, error |-> ""]

\* no function is being applied
NoCall == [fn |-> "", args |-> <<>>, returned |-> FALSE, result |-> <<>>]

\* a response of process_media; http 0 is no response yet
NoResponse ==
  [http |-> 0, status |-> "", restaurant_id |-> None, score |-> None,
   candidates |-> None, ocr_text |-> None, error |-> ""]

IdleRun ==
  [pc |-> "idle", req |-> [method |-> "", body |-> NoBody], useTesseract |-> FALSE,
   ocrResults |-> <<>>, ocrCalled |-> <<>>,
   normalizedText |-> <<>>, candidates |-> <<>>,
   allPlaces |-> <<>>, searched |-> <<>>,
   scoredPlaces |-> <<>>, topPlaces |-> <<>>,
   restaurant |-> None,
   failedWrites |-> {}, resp |-> NoResponse]

\* a response of process-ocr; http 0 is no response yet
NoOcrResponse == [http |-> 0, status |-> "", text |-> None, error |-> ""]

IdleOcrRun ==
  [pc |-> "idle", req |-> [method |-> "", json |-> FALSE, media_id |-> None, image_url |-> None],
   fullText |-> <<>>, individualTexts |-> <<>>, resp |-> NoOcrResponse]

Init ==
  /\ media = [m \in MediaIds |-> None]
  /\ restaurants = <<>>
  /\ place_cache = <<>>
  /\ runs = [r \in Slots |-> IdleRun]
  /\ started = 0
  /\ ocrRun = IdleOcrRun
  /\ ocrStarted = 0
  /\ call = NoCall
  /\ poll = NoPoll

(***************************************************************************)
(* The providers, as process_media calls them.                             *)
(***************************************************************************)
\* performOCRWithVision: threw, or the OCRResult
performOCRWithVision(imageUrl, outcome) ==
  IF outcome.kind # "ok"
  THEN [threw |-> TRUE, result |-> [text |-> <<>>, confidence |-> 0]]
  ELSE IF Len(outcome.textAnnotations) = 0
  THEN [threw |-> FALSE, result |-> [text |-> <<>>, confidence |-> 0]]
  ELSE [threw |-> FALSE,
        result |-> [text |-> outcome.textAnnotations[1].description,
                    confidence |-> outcome.textAnnotations[1].confidence]]

\* performOCRWithTesseract: the placeholder
performOCRWithTesseract(imageUrl) ==
  [threw |-> FALSE, result |-> [text |-> <<>>, confidence |-> 0]]

\* the mapping of one result of the Places API to a PlaceSearchResult
mapPlace(place) ==
  [name |-> place.name, address |-> place.formatted_address,
   lat |-> place.geometry.location.lat, lng |-> place.geometry.location.lng,
   place_id |-> place.place_id, rating |-> place.rating, types |-> place.types]

\* searchPlaces that throws on a status of the provider other than OK
searchPlacesStrict(query, country, city, outcome) ==
  LET searchQuery == IF IsSome(city)
                     THEN query \o <<" ","i","n"," ">> \o Get(city) ELSE query
  IN  IF outcome.kind # "ok" \/ outcome.status # "OK"
      THEN [threw |-> TRUE, searchQuery |-> searchQuery, places |-> <<>>]
      ELSE [threw |-> FALSE, searchQuery |-> searchQuery,
            places |-> [i \in 1..Len(outcome.results) |-> mapPlace(outcome.results[i])]]

\* searchPlaces: the query sent, and threw or the places returned
searchPlaces(query, country, city, outcome) ==
  LET searchQuery == IF IsSome(city)
                     THEN query \o <<" ","i","n"," ">> \o Get(city) ELSE query
  IN  IF outcome.kind = "nokey"
      THEN [threw |-> TRUE, searchQuery |-> searchQuery, places |-> <<>>]
      ELSE IF outcome.kind # "ok"
      THEN [threw |-> TRUE, searchQuery |-> searchQuery, places |-> <<>>]
      ELSE IF outcome.status # "OK"
      THEN [threw |-> FALSE, searchQuery |-> searchQuery, places |-> <<>>]
      ELSE [threw |-> FALSE, searchQuery |-> searchQuery,
            places |-> [i \in 1..Len(outcome.results) |-> mapPlace(outcome.results[i])]]


(***************************************************************************)
(* The process_media handler, one action per await.                        *)
(***************************************************************************)
\* ProcessMediaSchema.parse(await req.json()) does not throw
schemaAccepts(body) ==
  /\ body.json
  /\ IsSome(body.media_id) /\ IsUuid(Get(body.media_id))
  /\ IsSome(body.frame_urls)
  /\ \A i \in 1..Len(Get(body.frame_urls)) : IsUrl(Get(body.frame_urls)[i])

MethodNotAllowed == [NoResponse EXCEPT !.http = 405]

\* the catch of the handler: { error: error.message }, status 500
ServerError(message) == [NoResponse EXCEPT !.http = 500, !.error = message]

NeedsConfirmation(candidates, ocr_text) ==
  [NoResponse EXCEPT !.http = 200, !.status = "needs_confirmation",
                     !.candidates = Some(candidates), !.ocr_text = Some(ocr_text)]

Confirmed(restaurant_id, score) ==
  [NoResponse EXCEPT !.http = 200, !.status = "confirmed",
                     !.restaurant_id = Some(restaurant_id), !.score = Some(score)]

\* the fields of a scored place a needs_confirmation response carries
responseCandidate(place) ==
  [name |-> place.name, address |-> place.address, lat |-> place.lat,
   lng |-> place.lng, place_id |-> place.place_id, score |-> place.score]

respond(run, resp) == [run EXCEPT !.pc = "done", !.resp = resp]

\* updateStatusText that also clears the restaurant of the row
updateStatusTextDetaching(tbl, id, status, text) ==
  IF id \in DOMAIN tbl /\ IsSome(tbl[id])
  THEN [tbl EXCEPT ![id] = Some([Get(tbl[id]) EXCEPT !.status = status,
                                                       !.ocr_text = Some(text),
                                                       !.restaurant_id = None])]
  ELSE tbl

\* supabase.from('media').update(fields).eq('id', id): no row, no change
updateStatusText(tbl, id, status, text) ==
  IF id \in DOMAIN tbl /\ IsSome(tbl[id])
  THEN [tbl EXCEPT ![id] = Some([Get(tbl[id]) EXCEPT !.status = status,
                                                       !.ocr_text = Some(text)])]
  ELSE tbl

updateConfirmed(tbl, id, restaurant_id, text) ==
  IF id \in DOMAIN tbl /\ IsSome(tbl[id])
  THEN [tbl EXCEPT ![id] = Some([Get(tbl[id]) EXCEPT !.restaurant_id = Some(restaurant_id),
                                                       !.status = "done",
                                                       !.ocr_text = Some(text)])]
  ELSE tbl

\* topOf without its limit
topOfAll(scoredPlaces) == scoredPlaces

\* const topPlaces = scoredPlaces.slice(0, 3)
topOf(scoredPlaces) == slice0(scoredPlaces, 3)

\* confident with > for >=
confidentStrict(topPlaces) == topPlaces # <<>> /\ FracGT(topPlaces[1].score, Threshold)

\* bestMatch && bestMatch.score >= 0.75
confident(topPlaces) == topPlaces # <<>> /\ FracGE(topPlaces[1].score, Threshold)

\* candidates.slice(0, 3): the candidates searched
searchedCandidates(candidates) == slice0(candidates, 3)

\* afterSearch where a failed search ends the run in the catch of the handler
afterSearchFailing(run) ==
  IF \E j \in 1..Len(run.searched) : run.searched[j].threw
  THEN respond(run, ServerError("Place search failed"))
  ELSE IF Len(run.allPlaces) = 0 THEN [run EXCEPT !.pc = "upd_noplaces"]
  ELSE LET scoredPlaces == scorePlaceCandidates(run.candidates, run.allPlaces)
           topPlaces == topOf(scoredPlaces)
       IN  [run EXCEPT !.scoredPlaces = scoredPlaces, !.topPlaces = topPlaces,
                       !.pc = IF confident(topPlaces) THEN "insert_restaurant" ELSE "upd_review"]

\* afterSearch where the scorer is given the searched candidates only
afterSearchSearchedOnly(run) ==
  IF Len(run.allPlaces) = 0 THEN [run EXCEPT !.pc = "upd_noplaces"]
  ELSE LET scoredPlaces == scorePlaceCandidates(searchedCandidates(run.candidates), run.allPlaces)
           topPlaces == topOf(scoredPlaces)
       IN  [run EXCEPT !.scoredPlaces = scoredPlaces, !.topPlaces = topPlaces,
                       !.pc = IF confident(topPlaces) THEN "insert_restaurant" ELSE "upd_review"]

\* from the end of the search loop to the next await
afterSearch(run) ==
  IF Len(run.allPlaces) = 0 THEN [run EXCEPT !.pc = "upd_noplaces"]
  ELSE LET scoredPlaces == scorePlaceCandidates(run.candidates, run.allPlaces)
           topPlaces == topOf(scoredPlaces)
       IN  [run EXCEPT !.scoredPlaces = scoredPlaces, !.topPlaces = topPlaces,
                       !.pc = IF confident(topPlaces) THEN "insert_restaurant" ELSE "upd_review"]

\* from the end of the OCR loop to the next await
afterOcr(run) ==
  LET allText == aggregateText(run.ocrResults)
      normalizedText == normalizeText(allText)
      candidates == extractPOICandidates(allText)
  IN  [run EXCEPT !.normalizedText = normalizedText, !.candidates = candidates,
                  !.pc = IF Len(candidates) = 0 THEN "upd_nocand" ELSE "search"]

\* the handler up to its first await after the request is read
handleRequest(request, useTesseract) ==
  LET run == [IdleRun EXCEPT !.req = request, !.useTesseract = useTesseract]
  IN  IF request.method # "POST" THEN respond(run, MethodNotAllowed)
      ELSE IF ~schemaAccepts(request.body) THEN respond(run, ServerError("invalid request"))
      ELSE IF Len(Get(request.body.frame_urls)) = 0 THEN afterOcr(run)
      ELSE [run EXCEPT !.pc = "ocr"]

Receive(r, request) ==
  /\ runs[r].pc = "idle"
  /\ started < MaxRuns
  /\ started' = started + 1
  /\ \E useTesseract \in BOOLEAN :
        runs' = [runs EXCEPT ![r] = handleRequest(request, useTesseract)]
  /\ UNCHANGED <<media, restaurants, place_cache, ocrRun, ocrStarted, call, poll>>

\* ocrFrame whose catch pushes nothing for the failed frame
ocrFrameNoSubstitute(run, outcome) ==
  LET frameUrl == Get(run.req.body.frame_urls)[Len(run.ocrResults) + 1]
      out == IF run.useTesseract THEN performOCRWithTesseract(frameUrl)
             ELSE performOCRWithVision(frameUrl, outcome)
  IN  [run EXCEPT !.ocrResults = IF out.threw THEN @ ELSE Append(@, out.result),
                  !.ocrCalled = Append(@, [url |-> frameUrl, threw |-> out.threw])]

\* one pass of the OCR loop: the call for the next frame and its catch
ocrFrame(run, outcome) ==
  LET frameUrl == Get(run.req.body.frame_urls)[Len(run.ocrResults) + 1]
      out == IF run.useTesseract THEN performOCRWithTesseract(frameUrl)
             ELSE performOCRWithVision(frameUrl, outcome)
      result == IF out.threw THEN [text |-> <<>>, confidence |-> 0] ELSE out.result
  IN  [run EXCEPT !.ocrResults = Append(@, result),
                  !.ocrCalled = Append(@, [url |-> frameUrl, threw |-> out.threw])]

OcrStep(r, outcome) ==
  /\ runs[r].pc = "ocr"
  /\ LET run == ocrFrame(runs[r], outcome)
     IN  runs' = [runs EXCEPT ![r] =
                    IF Len(run.ocrResults) = Len(Get(run.req.body.frame_urls))
                    THEN afterOcr(run) ELSE run]
  /\ UNCHANGED <<media, restaurants, place_cache, started, ocrRun, ocrStarted, call, poll>>

\* one pass of the search loop: the call for the next candidate and its catch
searchCandidate(run, outcome) ==
  LET candidate == searchedCandidates(run.candidates)[Len(run.searched) + 1]
      out == searchPlaces(candidate, run.req.body.country, run.req.body.city, outcome)
  IN  [run EXCEPT !.allPlaces = IF out.threw THEN @ ELSE @ \o out.places,
                  !.searched = Append(@, [candidate |-> candidate,
                                          searchQuery |-> out.searchQuery,
                                          threw |-> out.threw])]

SearchStep(r, outcome) ==
  /\ runs[r].pc = "search"
  /\ LET run == searchCandidate(runs[r], outcome)
     IN  runs' = [runs EXCEPT ![r] =
                    IF Len(run.searched) = Len(searchedCandidates(run.candidates))
                    THEN afterSearch(run) ELSE run]
  /\ UNCHANGED <<media, restaurants, place_cache, started, ocrRun, ocrStarted, call, poll>>

\* a needs_confirmation branch: the media update, its error ignored, and
\* the response
reviewStep(r, ok, candidates) ==
  LET run == runs[r]
  IN  /\ media' = IF ok THEN updateStatusText(media, Get(run.req.body.media_id),
                                               "needs_confirmation", run.normalizedText)
                  ELSE media
      /\ runs' = [runs EXCEPT ![r] =
                    respond([run EXCEPT !.failedWrites = IF ok THEN @ ELSE @ \cup {"media"}],
                            NeedsConfirmation(candidates, run.normalizedText))]
      /\ UNCHANGED <<restaurants, place_cache, started, ocrRun, ocrStarted, call, poll>>

UpdateNoCandidates(r, ok) ==
  /\ runs[r].pc = "upd_nocand"
  /\ reviewStep(r, ok, <<>>)

UpdateNoPlaces(r, ok) ==
  /\ runs[r].pc = "upd_noplaces"
  /\ reviewStep(r, ok, <<>>)

UpdateReview(r, ok) ==
  /\ runs[r].pc = "upd_review"
  /\ reviewStep(r, ok, [i \in 1..Len(runs[r].topPlaces) |->
                          responseCandidate(runs[r].topPlaces[i])])

restaurantRow(bestMatch, created_by) ==
  [name |-> bestMatch.name, address |-> bestMatch.address,
   lat |-> bestMatch.lat, lng |-> bestMatch.lng, place_provider |-> "google",
   place_id |-> bestMatch.place_id, tags |-> <<"ai-analyzed">>,
   created_by |-> created_by]

\* (await supabase.from('media').select('user_id').eq('id', media_id).single()).data?.user_id
selectUserId(tbl, id) ==
  IF id \in DOMAIN tbl /\ IsSome(tbl[id]) THEN Some(Get(tbl[id]).user_id) ELSE None

\* supabase.from('restaurants').insert(...).select().single() with the select
\* of created_by inside it, and the throw on restaurantError
InsertRestaurant(r, ok) ==
  /\ runs[r].pc = "insert_restaurant"
  /\ LET created_by == selectUserId(media, Get(runs[r].req.body.media_id))
     IN  IF ok
         THEN /\ restaurants' = Append(restaurants,
                                       restaurantRow(runs[r].topPlaces[1], created_by))
              /\ runs' = [runs EXCEPT ![r].pc = "upd_done",
                                      ![r].restaurant = Some(Len(restaurants) + 1)]
         ELSE /\ restaurants' = restaurants
              /\ runs' = [runs EXCEPT ![r] =
                            respond([runs[r] EXCEPT !.failedWrites = @ \cup {"restaurants"}],
                                    ServerError("Failed to create restaurant"))]
  /\ UNCHANGED <<media, place_cache, started, ocrRun, ocrStarted, call, poll>>

\* the media update of the auto-confirm branch, its error ignored
UpdateDone(r, ok) ==
  /\ runs[r].pc = "upd_done"
  /\ media' = IF ok THEN updateConfirmed(media, Get(runs[r].req.body.media_id),
                                         Get(runs[r].restaurant), runs[r].normalizedText)
              ELSE media
  /\ runs' = [runs EXCEPT ![r].pc = "insert_cache", ![r].failedWrites = IF ok THEN @ ELSE @ \cup {"media"}]
  /\ UNCHANGED <<restaurants, place_cache, started, ocrRun, ocrStarted, call, poll>>

cacheRow(run) ==
  LET bestMatch == run.topPlaces[1]
  IN  [normalized_query |-> toLowerCase(run.candidates[1]),
       country |-> run.req.body.country, city |-> run.req.body.city,
       provider |-> "google", place_id |-> bestMatch.place_id,
       name |-> bestMatch.name, address |-> bestMatch.address,
       lat |-> bestMatch.lat, lng |-> bestMatch.lng, score |-> bestMatch.score]

\* the place_cache insert, its error ignored, and the confirmed response
InsertCache(r, ok) ==
  /\ runs[r].pc = "insert_cache"
  /\ place_cache' = IF ok THEN Append(place_cache, cacheRow(runs[r])) ELSE place_cache
  /\ runs' = [runs EXCEPT ![r] =
                respond([runs[r] EXCEPT !.failedWrites = IF ok THEN @ ELSE @ \cup {"place_cache"}],
                        Confirmed(Get(runs[r].restaurant), runs[r].topPlaces[1].score))]
  /\ UNCHANGED <<media, restaurants, started, ocrRun, ocrStarted, call, poll>>

\* the fetch of performOCRWithVision (with its key configured) or of
\* searchPlaces is sent and the provider never answers: the call passes no
\* signal and no timeout to fetch, so the await never returns
FetchNeverSettles(r) ==
  /\ \/ runs[r].pc = "ocr" /\ ~runs[r].useTesseract
     \/ runs[r].pc = "search"
  /\ runs' = [runs EXCEPT ![r].pc = "awaiting"]
  /\ UNCHANGED <<media, restaurants, place_cache, started, ocrRun, ocrStarted, call, poll>>

\* the caller takes the response; the instance is free again
Deliver(r) ==
  /\ runs[r].pc = "done"
  /\ runs' = [runs EXCEPT ![r] = IdleRun]
  /\ UNCHANGED <<media, restaurants, place_cache, started, ocrRun, ocrStarted, call, poll>>

ProcessMedia(r, requests, ocrOutcomes, searchOutcomes) ==
  \/ \E request \in requests : Receive(r, request)
  \/ \E outcome \in ocrOutcomes : OcrStep(r, outcome)
  \/ \E outcome \in searchOutcomes : SearchStep(r, outcome)
  \/ \E ok \in BOOLEAN : UpdateNoCandidates(r, ok)
  \/ \E ok \in BOOLEAN : UpdateNoPlaces(r, ok)
  \/ \E ok \in BOOLEAN : UpdateReview(r, ok)
  \/ \E ok \in BOOLEAN : InsertRestaurant(r, ok)
  \/ \E ok \in BOOLEAN : UpdateDone(r, ok)
  \/ \E ok \in BOOLEAN : InsertCache(r, ok)
  \/ Deliver(r)

(***************************************************************************)
(* The process-ocr handler, one action per await.                          *)
(***************************************************************************)
OcrError(http, message) ==
  [NoOcrResponse EXCEPT !.http = http, !.status = "error", !.error = message]

OcrDone(texts) ==
  [NoOcrResponse EXCEPT !.http = 200, !.status = "done", !.text = Some(texts)]

ocrRespond(run, resp) == [run EXCEPT !.pc = "done", !.resp = resp]

\* the handler up to visionClient.textDetection; configured is whether the
\* secrets it reads are all there
handleOcrRequest(request, configured) ==
  LET run == [IdleOcrRun EXCEPT !.req = request]
  IN  IF request.method # "POST"
      THEN ocrRespond(run, [NoOcrResponse EXCEPT !.http = 405])
      ELSE IF ~request.json
      THEN ocrRespond(run, OcrError(500, "Unknown error occurred"))
      ELSE IF ~IsSome(request.media_id) \/ ~IsSome(request.image_url)
      THEN ocrRespond(run, OcrError(400, "Missing required fields: media_id and image_url"))
      ELSE IF ~configured
      THEN ocrRespond(run, OcrError(500, "secrets missing"))
      ELSE [run EXCEPT !.pc = "detect"]

ReceiveOcr(request, configured) ==
  /\ ocrRun.pc = "idle"
  /\ ocrStarted < MaxOcrRuns
  /\ ocrStarted' = ocrStarted + 1
  /\ ocrRun' = handleOcrRequest(request, configured)
  /\ UNCHANGED <<media, restaurants, place_cache, runs, started, call, poll>>

\* detections.map(d => d.description || '').filter(text => text.length > 0)
extractedTextOf(detections) ==
  dropEmpty([i \in 1..Len(detections) |-> detections[i].description])

\* the answer of textDetection, up to the media update
DetectStep(outcome) ==
  /\ ocrRun.pc = "detect"
  /\ ocrRun' =
       IF outcome.threw
       THEN ocrRespond(ocrRun, OcrError(500, "textDetection failed"))
       ELSE IF Len(outcome.textAnnotations) = 0
       THEN [ocrRun EXCEPT !.pc = "update_empty"]
       ELSE LET extractedText == extractedTextOf(outcome.textAnnotations)
            IN  [ocrRun EXCEPT !.pc = "update",
                               !.fullText = IF extractedText = <<>> THEN <<>>
                                            ELSE extractedText[1],
                               !.individualTexts = Tail(extractedText)]
  /\ UNCHANGED <<media, restaurants, place_cache, runs, started, ocrStarted, call, poll>>

\* UpdateOcr that does not read updateError
UpdateOcrIgnoring(ok) ==
  /\ ocrRun.pc \in {"update", "update_empty"}
  /\ LET id == Get(ocrRun.req.media_id)
         text == IF ocrRun.pc = "update" THEN ocrRun.fullText ELSE <<>>
         texts == IF ocrRun.pc = "update" THEN ocrRun.individualTexts ELSE <<>>
     IN  /\ media' = IF ok /\ IsUuid(id) THEN updateStatusText(media, id, "done", text)
                      ELSE media
         /\ ocrRun' = ocrRespond(ocrRun, OcrDone(texts))
  /\ UNCHANGED <<restaurants, place_cache, runs, started, ocrStarted, call, poll>>

\* supabase.from('media').update({ocr_text, status: 'done'}).eq('id', media_id)
\* with the throw on updateError; an id that is no UUID is an error of the
\* store
UpdateOcr(ok) ==
  /\ ocrRun.pc \in {"update", "update_empty"}
  /\ LET id == Get(ocrRun.req.media_id)
         text == IF ocrRun.pc = "update" THEN ocrRun.fullText ELSE <<>>
         texts == IF ocrRun.pc = "update" THEN ocrRun.individualTexts ELSE <<>>
     IN  IF ok /\ IsUuid(id)
         THEN /\ media' = updateStatusText(media, id, "done", text)
              /\ ocrRun' = ocrRespond(ocrRun, OcrDone(texts))
         ELSE /\ media' = media
              /\ ocrRun' = ocrRespond(ocrRun, OcrError(500, "Failed to update media record"))
  /\ UNCHANGED <<restaurants, place_cache, runs, started, ocrStarted, call, poll>>

DeliverOcr ==
  /\ ocrRun.pc = "done"
  /\ ocrRun' = IdleOcrRun
  /\ UNCHANGED <<media, restaurants, place_cache, runs, started, ocrStarted, call, poll>>

OcrRequests ==
  {[method |-> "POST", json |-> TRUE, media_id |-> Some(m), image_url |-> Some(FrameUrl(1))] :
     m \in MediaIds \cup {<<"text", 0>>}}
  \cup {[method |-> "POST", json |-> TRUE, media_id |-> Some(Uuid(1)), image_url |-> None],
        [method |-> "POST", json |-> FALSE, media_id |-> None, image_url |-> None],
        [method |-> "GET", json |-> FALSE, media_id |-> None, image_url |-> None]}

DetectOutcomes ==
  {[threw |-> TRUE, textAnnotations |-> <<>>],
   [threw |-> FALSE, textAnnotations |-> <<>>],
   [threw |-> FALSE,
    textAnnotations |-> <<[description |-> TextBarAt], [description |-> TextBar],
                          [description |-> <<"@","a">>]>>]}

ProcessOcr ==
  \/ \E request \in OcrRequests, configured \in BOOLEAN : ReceiveOcr(request, configured)
  \/ \E outcome \in DetectOutcomes : DetectStep(outcome)
  \/ \E ok \in BOOLEAN : UpdateOcr(ok)
  \/ DeliverOcr

(***************************************************************************)
(* The client operations that write the media table.                       *)
(***************************************************************************)
\* uploadMedia / uploadMediaWithOCR: the insert of the media row
UploadMedia(user) ==
  /\ \E id \in MediaIds :
        /\ media[id] = None
        /\ \A other \in MediaIds : other[2] < id[2] => media[other] # None
        /\ media' = [media EXCEPT ![id] = Some([user_id |-> user, restaurant_id |-> None,
                                                status |-> "uploaded", ocr_text |-> None])]
  /\ UNCHANGED <<restaurants, place_cache, runs, started, ocrRun, ocrStarted, call, poll>>

\* confirmRestaurant(mediaId, restaurantId): restaurant 0 names no row, and
\* the foreign key of media.restaurant_id refuses it
ConfirmRestaurant(mediaId, restaurantId, ok) ==
  /\ media' = IF ok /\ restaurantId \in 1..Len(restaurants)
                   /\ mediaId \in DOMAIN media /\ IsSome(media[mediaId])
              THEN [media EXCEPT ![mediaId] =
                      Some([Get(media[mediaId]) EXCEPT !.restaurant_id = Some(restaurantId),
                                                       !.status = "done"])]
              ELSE media
  /\ UNCHANGED <<restaurants, place_cache, runs, started, ocrRun, ocrStarted, call, poll>>

\* one pass of the loop of pollMediaStatus over the row it reads: the result
\* it returns, or None when it waits and reads again
pollMediaStatusRead(row) ==
  IF row.status = "done"
  THEN Some([status |-> "confirmed", restaurant_id |-> row.restaurant_id,
             score |-> One, candidates |-> None, ocr_text |-> row.ocr_text])
  ELSE IF row.status = "needs_confirmation"
  THEN Some([status |-> "needs_confirmation", restaurant_id |-> None,
             score |-> Zero, candidates |-> Some(<<>>), ocr_text |-> row.ocr_text])
  ELSE None

\* const maxAttempts = 60 of pollOCRStatus
maxAttempts == 60

\* pollOCRStatus(mediaId) is called
StartPoll(mediaId) ==
  /\ poll.pc = "idle"
  /\ poll' = [NoPoll EXCEPT !.pc = "reading", !.mediaId = mediaId,
                            !.processed = (IsSome(media[mediaId])
                                           /\ ocrRun.pc = "done"
                                           /\ ocrRun.req.media_id = Some(mediaId))]
  /\ UNCHANGED <<media, restaurants, place_cache, runs, started, ocrRun, ocrStarted, call>>

\* one pass of the loop of pollOCRStatus: the select of the row, the return
\* on done, the throw on error, and the throw after the last attempt
PollRead ==
  /\ poll.pc = "reading"
  /\ poll' =
       IF ~(poll.mediaId \in DOMAIN media /\ IsSome(media[poll.mediaId]))
       THEN [poll EXCEPT !.pc = "threw", !.error = "Failed to check media status"]
       ELSE LET row == Get(media[poll.mediaId])
            IN  IF row.status = "done"
                THEN [poll EXCEPT !.pc = "returned", !.status = "done",
                                  !.ocr_text = row.ocr_text]
                ELSE IF row.status = "error"
                THEN [poll EXCEPT !.pc = "threw", !.error = "OCR processing failed"]
                ELSE IF poll.attempt + 1 < maxAttempts
                THEN [poll EXCEPT !.attempt = @ + 1]
                ELSE [poll EXCEPT !.attempt = @ + 1, !.pc = "threw",
                                  !.error = "OCR processing timeout"]
  /\ UNCHANGED <<media, restaurants, place_cache, runs, started, ocrRun, ocrStarted, call>>

PollOCRStatus ==
  \/ \E mediaId \in MediaIds : StartPoll(mediaId)
  \/ PollRead

Client ==
  \/ \E user \in Users : UploadMedia(user)
  \/ \E mediaId \in MediaIds \cup {UnknownId}, restaurantId \in 0..Len(restaurants),
        ok \in BOOLEAN : ConfirmRestaurant(mediaId, restaurantId, ok)

Next ==
  \/ \E r \in SeqSlots : ProcessMedia(r, Requests, OcrOutcomes, SearchOutcomes)
  \/ Client

Spec == Init /\ [][Next]_vars

\* every operation on the media table, process_media on fewer inputs
LifeRequests ==
  {[method |-> "POST", body |-> ValidBody(m, 1, NoLocality)] : m \in MediaIds}

LifeOcrOutcomes ==
  {[kind |-> "ok", textAnnotations |-> <<[description |-> t, confidence |-> 1]>>] :
     t \in {TextBar, TextJoe, <<"@","a">>}}

LifeSearchOutcomes ==
  {[kind |-> "ok", status |-> "ZERO_RESULTS", results |-> <<>>],
   [kind |-> "ok", status |-> "OK", results |-> <<RawBars, RawBarns>>]}

LifeNext ==
  \/ \E r \in SeqSlots : ProcessMedia(r, LifeRequests, LifeOcrOutcomes, LifeSearchOutcomes)
  \/ Client
  \/ ProcessOcr

LifeSpec == Init /\ [][LifeNext]_vars


\* process_media with providers that may never answer; every step of the
\* handler that can be taken is taken in the end
HangNext ==
  \/ \E r \in SeqSlots :
        ProcessMedia(r, LifeRequests, LifeOcrOutcomes, LifeSearchOutcomes)
  \/ \E r \in SeqSlots : FetchNeverSettles(r)
  \/ Client

\* the steps of the handler after its OCR loop
AfterOcrLoop(r) ==
  \/ \E outcome \in LifeSearchOutcomes : SearchStep(r, outcome)
  \/ \E ok \in BOOLEAN : UpdateNoCandidates(r, ok)
  \/ \E ok \in BOOLEAN : UpdateNoPlaces(r, ok)
  \/ \E ok \in BOOLEAN : UpdateReview(r, ok)
  \/ \E ok \in BOOLEAN : InsertRestaurant(r, ok)
  \/ \E ok \in BOOLEAN : UpdateDone(r, ok)
  \/ \E ok \in BOOLEAN : InsertCache(r, ok)

\* the runtime goes on with a handler whose await has returned: weak fairness
\* of the steps after the OCR loop, and of OcrStep, which is enabled exactly
\* while pc = "ocr" and so is written as "the run does not stay at ocr"
HangSpec ==
  /\ Init /\ [][HangNext]_vars
  /\ \A r \in SeqSlots : WF_vars(AfterOcrLoop(r))
  /\ \A r \in SeqSlots : []<>(runs[r].pc # "ocr")

\* process_media on texts of several candidates: four handles and names of
\* which the last is the name of a place, two handles, and no candidate
TextMany == <<"@","a","\n","#","b","\n","@","c","\n","B","a","r","n","s">>

TextTwo == <<"@","a","\n","#","b">>

WideOcrOutcomes ==
  {[kind |-> "ok", textAnnotations |-> <<[description |-> t, confidence |-> 1]>>] :
     t \in {TextMany, TextTwo, TextJoe}}

WideNext ==
  \/ \E r \in SeqSlots :
        ProcessMedia(r, LifeRequests, WideOcrOutcomes, LifeSearchOutcomes)
  \/ Client

WideSpec == Init /\ [][WideNext]_vars

\* the OCR flow of the client: the upload, process-ocr, and the poll
PollNext ==
  \/ \E user \in Users : UploadMedia(user)
  \/ ProcessOcr
  \/ PollOCRStatus

PollSpec == Init /\ [][PollNext]_vars

\* process_media invoked twice, the two invocations running side by side or
\* one after the other, with a store that accepts every write
ConcNext ==
  \/ \E r \in Slots :
        \/ \E request \in LifeRequests : Receive(r, request)
        \/ \E outcome \in LifeOcrOutcomes : OcrStep(r, outcome)
        \/ \E outcome \in LifeSearchOutcomes : SearchStep(r, outcome)
        \/ UpdateNoCandidates(r, TRUE)
        \/ UpdateNoPlaces(r, TRUE)
        \/ UpdateReview(r, TRUE)
        \/ InsertRestaurant(r, TRUE)
        \/ UpdateDone(r, TRUE)
        \/ InsertCache(r, TRUE)
        \/ Deliver(r)
  \/ \E user \in Users : UploadMedia(user)

ConcSpec == Init /\ [][ConcNext]_vars

(***************************************************************************)
(* The functions of index.ts applied on their own: the initial state draws *)
(* a function and its arguments, the step applies the function.            *)
(***************************************************************************)
\* the most lines of a text given to extractPOICandidates
MaxLines == 3

\* the longest string given to calculateSimilarity
MaxStrLen == 3

\* lines of OCR text: handles that differ in case only, a handle with blanks
\* around it, links with a handle or a keyword in them, a Title Case name,
\* a keyword, a line that is no candidate, and the empty line
FnLines ==
  {<<"@","h">>, <<"@","H">>, <<" ","@","h"," ">>,
   <<"@","h","t","t","p">>, <<"b","a","r","w","w","w">>,
   <<"J","o","e">>, <<"b","a","r">>, <<"x">>, <<>>}

\* the sequences of 0..n elements of S
RECURSIVE SeqsUpTo(_, _)
SeqsUpTo(S, n) ==
  IF n = 0 THEN {<<>>}
  ELSE LET shorter == SeqsUpTo(S, n - 1)
       IN  shorter \cup {Append(s, x) : s \in shorter, x \in S}

\* the texts of at most MaxLines lines
FnTexts == {join(ls, <<"\n">>) : ls \in SeqsUpTo(FnLines, MaxLines)}

\* the strings of at most MaxStrLen characters over a, b and A
FnStrings == SeqsUpTo({"a", "b", "A"}, MaxStrLen)

\* what one call of the Places text search can come to, with more of the
\* statuses of the provider
FnSearchOutcomes ==
  SearchOutcomes
  \cup {[kind |-> "ok", status |-> s, results |-> <<>>] :
          s \in {"OVER_QUERY_LIMIT", "REQUEST_DENIED", "INVALID_REQUEST"}}

\* the most places and the most candidates given to scorePlaceCandidates
MaxPlaces == 3

MaxCandidates == 2

\* places that tie against the candidate "bar": a rating above 4.0 and no
\* types, a food type and no rating
RawBart == RawPlace(<<"B","a","r","t">>, 4, Some(41), None)

RawBarb == RawPlace(<<"B","a","r","b">>, 5, None, Some(<< <<"c","a","f","e">> >>))

FnPlaces == {mapPlace(p) : p \in {RawBar, RawBars, RawBarns, RawBart, RawBarb}}

FnCandidates == {<<"b","a","r">>, <<"b","a","r","s">>, <<"@","a">>}

\* extractFrames of the client services: the times asked for are 0, the
\* middle and 500 ms before the end, and two random times when the video is
\* longer than 3 s; a thumbnail request that fails is logged and skipped.
\* randoms are the two values of Math.random() as fractions <<num, den>> of
\* the duration, failing is the set of the requests (by position) that throw.
RECURSIVE pushFrames(_, _, _, _, _)
pushFrames(videoUri, times, i, failing, frames) ==
  IF i > Len(times) THEN frames
  ELSE pushFrames(videoUri, times, i + 1, failing,
                  IF i \in failing THEN frames
                  ELSE Append(frames, [time |-> times[i], uri |-> <<videoUri, times[i]>>]))

extractFrames(videoUri, durationMs, randoms, failing) ==
  LET fixed == <<0, durationMs \div 2, IF durationMs - 500 > 0 THEN durationMs - 500 ELSE 0>>
      times == IF durationMs > 3000
               THEN fixed \o [i \in 1..2 |-> (randoms[i][1] * durationMs) \div randoms[i][2]]
               ELSE fixed
  IN  pushFrames(videoUri, times, 1, failing, <<>>)

\* durations of videos in ms (even, so that the middle is a whole number):
\* empty, shorter than 500 ms, exactly 3 s, just above 3 s, 10 s
FnDurations == {0, 400, 3000, 3002, 10000}

\* values of Math.random(), as fractions of the duration
FnRandoms == {<<0, 1>>, <<1, 2>>}

Applied(fn, args) == [fn |-> fn, args |-> args, returned |-> FALSE, result |-> <<>>]

FnCalls ==
  {Applied("extractPOICandidates", <<t>>) : t \in FnTexts}
  \cup {Applied("calculateSimilarity", <<a, b>>) : a \in FnStrings, b \in FnStrings}
  \cup {Applied("searchPlaces", <<TextBar, loc.country, loc.city, o>>) :
          loc \in {NoLocality, Lund}, o \in FnSearchOutcomes}
  \cup {Applied("extractFrames", <<"video", d, <<r1, r2>>, f>>) :
          d \in FnDurations, r1 \in FnRandoms, r2 \in FnRandoms, f \in SUBSET (1..5)}
  \cup {Applied("scorePlaceCandidates", <<cs, ps>>) :
          cs \in SeqsUpTo(FnCandidates, MaxCandidates),
          ps \in SeqsUpTo(FnPlaces, MaxPlaces)}

FnInit ==
  /\ media = [m \in MediaIds |-> None]
  /\ restaurants = <<>>
  /\ place_cache = <<>>
  /\ runs = [r \in Slots |-> IdleRun]
  /\ started = 0
  /\ ocrRun = IdleOcrRun
  /\ ocrStarted = 0
  /\ call \in FnCalls
  /\ poll = NoPoll

Return(result) ==
  /\ ~call.returned
  /\ call' = [call EXCEPT !.returned = TRUE, !.result = result]
  /\ UNCHANGED <<media, restaurants, place_cache, runs, started, ocrRun, ocrStarted, poll>>

ApplyExtract ==
  /\ call.fn = "extractPOICandidates"
  /\ Return(extractPOICandidates(call.args[1]))

ApplySimilarity ==
  /\ call.fn = "calculateSimilarity"
  /\ Return(calculateSimilarity(call.args[1], call.args[2]))

ApplySearchPlaces ==
  /\ call.fn = "searchPlaces"
  /\ Return(searchPlaces(call.args[1], call.args[2], call.args[3], call.args[4]))

ApplyScore ==
  /\ call.fn = "scorePlaceCandidates"
  /\ Return(scorePlaceCandidates(call.args[1], call.args[2]))

ApplyExtractFrames ==
  /\ call.fn = "extractFrames"
  /\ Return(extractFrames(call.args[1], call.args[2], call.args[3], call.args[4]))

FnNext ==
  \/ ApplyExtractFrames
  \/ ApplyScore
  \/ ApplyExtract
  \/ ApplySimilarity
  \/ ApplySearchPlaces

FnSpec == FnInit /\ [][FnNext]_vars

(***************************************************************************)
(* The properties.                                                         *)
(***************************************************************************)
\* the request passed validation: a POST whose body the schema accepts
ValidRequest(req) == req.method = "POST" /\ req.body \in ValidBodies

\* the request is refused: not a POST, or a POST with a malformed body
RejectedRequest(req) ==
  \/ req.method = "GET"
  \/ req.method = "POST" /\ req.body \in MalformedBodies

\* instance r gives its response in this step
Responds(r) == runs[r].pc # "done" /\ runs'[r].pc = "done"

\* the media row the run of instance r is about exists
RowOf(run) == media[Get(run.req.body.media_id)]

\* the highest score among the scored places, whatever their order
HighestScore(scoredPlaces) ==
  LET i == CHOOSE i \in 1..Len(scoredPlaces) :
             \A j \in 1..Len(scoredPlaces) : FracGE(scoredPlaces[i].score, scoredPlaces[j].score)
  IN  scoredPlaces[i].score

\* C1: a run that accumulated places and saw no write fail answers confirmed
\* exactly when the highest score of the scorer is at least 0.75, and
\* needs_confirmation otherwise.
C1_ConfirmIffThreshold ==
  \A r \in Slots :
    LET run == runs[r] IN
    (run.pc = "done" /\ Len(run.allPlaces) > 0 /\ run.failedWrites = {}) =>
      /\ run.resp.status = "confirmed" <=> FracGE(HighestScore(run.scoredPlaces), Threshold)
      /\ run.resp.status \in {"confirmed", "needs_confirmation"}

\* a run confirmed on a top score of exactly 0.75, and no write failed
C1_Witness ==
  \E r \in Slots :
    /\ runs[r].pc = "done" /\ runs[r].failedWrites = {}
    /\ runs[r].resp.status = "confirmed"
    /\ HighestScore(runs[r].scoredPlaces) = Threshold

\* C2: the status of a media item only goes uploaded -> processing -> one of
\* done / needs_confirmation / error, and a terminal status never changes.
C2_StatusLifecycle ==
  [][\A m \in MediaIds :
       (IsSome(media[m]) /\ IsSome(media'[m])
          /\ Get(media'[m]).status # Get(media[m]).status) =>
         \/ Get(media[m]).status = "uploaded" /\ Get(media'[m]).status = "processing"
         \/ /\ Get(media[m]).status = "processing"
            /\ Get(media'[m]).status \in {"done", "needs_confirmation", "error"}]_vars

\* C3: when a run on an existing media row answers, the row agrees with the
\* answer: confirmed goes with status done and the restaurant of the answer,
\* needs_confirmation with status needs_confirmation, and a failed media
\* write with no success answer.
C3_StatusAgreesWithResponse ==
  [][\A r \in Slots :
       (Responds(r) /\ ValidRequest(runs'[r].req) /\ IsSome(RowOf(runs'[r]))) =>
         LET run == runs'[r]
             row == Get(media'[Get(run.req.body.media_id)])
         IN  /\ run.resp.status = "confirmed" =>
                  row.status = "done" /\ row.restaurant_id = run.resp.restaurant_id
             /\ run.resp.status = "needs_confirmation" => row.status = "needs_confirmation"
             /\ "media" \in run.failedWrites => run.resp.http # 200]_vars

\* C4: when a run on an existing media row answers with the error response,
\* the row has status error (it is not left at uploaded or processing).
C4_ErrorStatusAfterErrorResponse ==
  [][\A r \in Slots :
       (Responds(r) /\ ValidRequest(runs'[r].req) /\ IsSome(RowOf(runs'[r]))
          /\ runs'[r].resp.http = 500) =>
         Get(media'[Get(runs'[r].req.body.media_id)]).status = "error"]_vars

\* C5: the candidates of a response are at most 3.
C5_AtMostThreeCandidates ==
  \A r \in Slots :
    IsSome(runs[r].resp.candidates) => Len(Get(runs[r].resp.candidates)) <= 3

\* a needs_confirmation response with 3 candidates out of more than 3 places
C5_Witness ==
  \E r \in Slots :
    /\ runs[r].pc = "done" /\ Len(runs[r].allPlaces) > 3
    /\ runs[r].resp.status = "needs_confirmation"
    /\ Len(Get(runs[r].resp.candidates)) = 3

\* C6: when extraction yields no candidate, the run searches nothing, leaves
\* the row with status needs_confirmation and the aggregated text, and
\* answers needs_confirmation with no candidates.
C6_NoCandidatesOutcome ==
  [][\A r \in Slots :
       (Responds(r) /\ ValidRequest(runs'[r].req) /\ IsSome(RowOf(runs'[r]))
          /\ Len(runs'[r].candidates) = 0) =>
         LET run == runs'[r]
             row == Get(media'[Get(run.req.body.media_id)])
         IN  /\ Len(run.searched) = 0
             /\ run.resp = NeedsConfirmation(<<>>, run.normalizedText)
             /\ row.status = "needs_confirmation"
             /\ row.ocr_text = Some(run.normalizedText)]_vars

\* C7: a valid request makes one OCR call per frame URL, in order and none
\* twice; a failed call stands as the empty result; past the loop every URL
\* was called; the error response needs a failed restaurants insert.
C7_OneOcrCallPerFrame ==
  \A r \in Slots :
    LET run == runs[r]
        urls == Get(run.req.body.frame_urls)
    IN  ValidRequest(run.req) =>
          /\ Len(run.ocrCalled) <= Len(urls)
          /\ Len(run.ocrResults) = Len(run.ocrCalled)
          /\ \A i \in 1..Len(run.ocrCalled) :
                /\ run.ocrCalled[i].url = urls[i]
                /\ run.ocrCalled[i].threw =>
                     run.ocrResults[i] = [text |-> <<>>, confidence |-> 0]
          /\ run.pc # "ocr" => Len(run.ocrCalled) = Len(urls)
          /\ (run.pc = "done" /\ run.resp.http # 200) => "restaurants" \in run.failedWrites

\* a run that answered 200 on the text of one frame after the call for
\* another frame failed
C7_Witness ==
  \E r \in Slots :
    /\ runs[r].pc = "done" /\ runs[r].resp.http = 200
    /\ \E i, j \in 1..Len(runs[r].ocrCalled) :
          /\ runs[r].ocrCalled[i].threw
          /\ ~runs[r].ocrCalled[j].threw /\ Len(runs[r].ocrResults[j].text) > 0

\* C8: the search loop calls for each of the first 3 candidates whatever
\* calls fail, and a run in which nothing was found answers
\* needs_confirmation with no candidates, not the error response.
C8_SearchFailuresSkipped ==
  \A r \in Slots :
    LET run == runs[r]
        wanted == searchedCandidates(run.candidates)
    IN  ValidRequest(run.req) =>
          /\ Len(run.searched) <= Len(wanted)
          /\ \A j \in 1..Len(run.searched) : run.searched[j].candidate = wanted[j]
          /\ run.pc \notin {"ocr", "search"} => Len(run.searched) = Len(wanted)
          /\ (run.pc = "done" /\ Len(run.allPlaces) = 0) =>
               run.resp = NeedsConfirmation(<<>>, run.normalizedText)

\* a run whose first search failed and whose later search brought places
C8_Witness ==
  \E r \in Slots :
    /\ runs[r].pc = "done" /\ Len(runs[r].searched) > 1
    /\ runs[r].searched[1].threw
    /\ Len(runs[r].allPlaces) > 0

\* C9: a malformed POST is answered with a 4xx status.
C9_MalformedIsClientError ==
  \A r \in Slots :
    (runs[r].pc = "done" /\ runs[r].req.method = "POST"
       /\ runs[r].req.body \in MalformedBodies) =>
      runs[r].resp.http \in 400..499

\* C10: a refused request calls no provider and every step of its run leaves
\* the three tables as they were.
C10_RejectedNoEffects ==
  [][\A r \in Slots :
       (runs'[r] # runs[r] /\ RejectedRequest(runs'[r].req)) =>
         /\ media' = media /\ restaurants' = restaurants /\ place_cache' = place_cache
         /\ Len(runs'[r].ocrCalled) = 0 /\ Len(runs'[r].searched) = 0
         /\ runs'[r].pc = "done" /\ runs'[r].resp.http \in {405, 500}]_vars

\* a refused request has been answered while a media row exists
C10_Witness ==
  \E r \in Slots :
    /\ runs[r].pc = "done" /\ RejectedRequest(runs[r].req)
    /\ runs[r].req.method = "POST"
    /\ \E m \in MediaIds : IsSome(media[m])

\* C11: no step of a run on one of the needs_confirmation paths, up to and
\* with its needs_confirmation response, inserts into restaurants or
\* place_cache or changes the restaurant_id of a media row.
C11_ReviewWritesNoPlace ==
  [][\A r \in Slots :
       (/\ runs'[r] # runs[r]
        /\ ValidRequest(runs'[r].req)
        /\ runs'[r].pc \in {"ocr", "search", "upd_nocand", "upd_noplaces", "upd_review", "done"}
        /\ runs'[r].pc = "done" => runs'[r].resp.status = "needs_confirmation") =>
         /\ restaurants' = restaurants
         /\ place_cache' = place_cache
         /\ \A m \in MediaIds :
               IsSome(media[m]) =>
                 /\ IsSome(media'[m])
                 /\ Get(media'[m]).restaurant_id = Get(media[m]).restaurant_id]_vars

\* a needs_confirmation response below the threshold, written onto a media
\* row that an earlier run attached to a restaurant
C11_Witness ==
  \E r \in Slots :
    /\ runs[r].pc = "done" /\ runs[r].resp.status = "needs_confirmation"
    /\ Len(runs[r].allPlaces) > 0 /\ runs[r].failedWrites = {}
    /\ Len(restaurants) > 0
    /\ LET row == RowOf(runs[r])
       IN  /\ IsSome(row) /\ IsSome(Get(row).restaurant_id)
           /\ Get(row).status = "needs_confirmation"

\* C12: the restaurants table holds at most one row per provider place_id.
C12_OneRecordPerPlaceId ==
  \A i, j \in 1..Len(restaurants) :
    restaurants[i].place_id = restaurants[j].place_id => i = j

\* C13: a run makes no place-search call for a candidate whose key
\* (normalized candidate, country, city) already has a place_cache row.
C13_CacheShortCircuits ==
  [][\A r \in Slots :
       Len(runs'[r].searched) > Len(runs[r].searched) =>
         LET candidate == runs'[r].searched[Len(runs'[r].searched)].candidate
             body == runs'[r].req.body
         IN  ~\E c \in 1..Len(place_cache) :
                /\ place_cache[c].normalized_query = toLowerCase(candidate)
                /\ place_cache[c].country = body.country
                /\ place_cache[c].city = body.city]_vars

\* C14: every request a process_media instance has received gets its
\* response in the end, also when a provider never answers.
C14_EveryRequestAnswered ==
  \A r \in Slots :
    (runs[r].pc \notin {"idle", "done"}) ~> (runs[r].pc = "done")

\* searchPlaces was applied and has returned or thrown
SearchReturned == call.fn = "searchPlaces" /\ call.returned

\* C15 as stated: on a response that is not HTTP-ok, and on a status of the
\* provider other than OK, searchPlaces does not throw and returns the
\* empty list.
C15_NeverThrowsOnNonSuccess ==
  (/\ SearchReturned
   /\ \/ call.args[4].kind = "not_ok"
      \/ call.args[4].kind = "ok" /\ call.args[4].status # "OK") =>
    ~call.result.threw /\ call.result.places = <<>>

\* C15, amended: on an HTTP-ok response whose provider status is not OK,
\* searchPlaces does not throw and returns the empty list; on a response
\* that is not HTTP-ok it throws.
C15_EmptyOnProviderStatus ==
  SearchReturned =>
    /\ (call.args[4].kind = "ok" /\ call.args[4].status # "OK") =>
         ~call.result.threw /\ call.result.places = <<>>
    /\ call.args[4].kind = "not_ok" => call.result.threw

\* searchPlaces returned the empty list on the status ZERO_RESULTS
C15_Witness ==
  /\ SearchReturned
  /\ call.args[4].kind = "ok" /\ call.args[4].status = "ZERO_RESULTS"
  /\ ~call.result.threw /\ call.result.places = <<>>

\* C16: process-ocr answers done only from its media update and only when
\* the update was accepted, the row then holding the text and status done
\* (a refused update leaves the row alone and answers error); no step of it
\* writes restaurants, place_cache or any other field of a media row; a
\* request without media_id or image_url is answered 400 with no write.
C16_OcrPersistsTextAndStatusOnly ==
  [][ocrRun' # ocrRun =>
       /\ restaurants' = restaurants /\ place_cache' = place_cache
       /\ \A m \in MediaIds :
             IF IsSome(media[m])
             THEN /\ IsSome(media'[m])
                  /\ Get(media'[m]).restaurant_id = Get(media[m]).restaurant_id
                  /\ Get(media'[m]).user_id = Get(media[m]).user_id
             ELSE media'[m] = None
       /\ ocrRun'.resp.status = "done" => ocrRun.pc \in {"update", "update_empty"}
       /\ (ocrRun.pc \in {"update", "update_empty"} /\ ocrRun'.pc = "done") =>
            LET id == Get(ocrRun.req.media_id)
                text == IF ocrRun.pc = "update" THEN ocrRun.fullText ELSE <<>>
            IN  IF ocrRun'.resp.status = "done"
                THEN /\ IsUuid(id)
                     /\ (id \in MediaIds /\ IsSome(media[id])) =>
                          /\ Get(media'[id]).status = "done"
                          /\ Get(media'[id]).ocr_text = Some(text)
                ELSE media' = media /\ ocrRun'.resp.status = "error"
       /\ (/\ ocrRun.pc = "idle" /\ ocrRun'.req.method = "POST" /\ ocrRun'.req.json
           /\ ~(IsSome(ocrRun'.req.media_id) /\ IsSome(ocrRun'.req.image_url))) =>
            /\ media' = media
            /\ ocrRun'.pc = "done" /\ ocrRun'.resp.http = 400
            /\ ocrRun'.resp.status = "error"]_vars

\* process-ocr answered error after the store refused its update of an
\* existing row, which keeps status uploaded
C16_Witness ==
  /\ ocrRun.pc = "done" /\ ocrRun.resp.status = "error"
  /\ ocrRun.resp.error = "Failed to update media record"
  /\ IsUuid(Get(ocrRun.req.media_id))
  /\ IsSome(media[Get(ocrRun.req.media_id)])
  /\ Get(media[Get(ocrRun.req.media_id)]).status = "uploaded"

\* extractPOICandidates was applied and has returned
ExtractReturned == call.fn = "extractPOICandidates" /\ call.returned

\* C17: no entry of the list extractPOICandidates returns includes http or
\* www, no two entries are equal, and the empty text gives the empty list.
C17_NoLinksNoDuplicates ==
  ExtractReturned =>
    /\ \A i \in 1..Len(call.result) :
          /\ ~includes(call.result[i], <<"h","t","t","p">>)
          /\ ~includes(call.result[i], <<"w","w","w">>)
    /\ \A i, j \in 1..Len(call.result) : call.result[i] = call.result[j] => i = j
    /\ call.args[1] = <<>> => call.result = <<>>

\* a text with a handle, the handle inside a link and the handle again came
\* back as the one handle
C17_Witness ==
  /\ ExtractReturned
  /\ call.args[1] = join(<< <<"@","h">>, <<"@","h","t","t","p">>, <<"@","h">> >>, <<"\n">>)
  /\ call.result = << <<"@","h">> >>

\* the index of the first line equal to x
FirstIndex(lines, x) ==
  CHOOSE k \in 1..Len(lines) : lines[k] = x /\ \A n \in 1..(k - 1) : lines[n] # x

\* the entries stand in the order in which they first appear among the lines
InOrderOfFirstAppearance(lines, entries) ==
  /\ \A i \in 1..Len(entries) : \E k \in 1..Len(lines) : lines[k] = entries[i]
  /\ \A i, j \in 1..Len(entries) :
        i < j => FirstIndex(lines, entries[i]) < FirstIndex(lines, entries[j])

\* C18 as stated: no two entries of the list are equal after case folding,
\* and the entries stand in the order of their first appearance.
C18_CaseInsensitiveUnique ==
  ExtractReturned =>
    /\ \A i, j \in 1..Len(call.result) :
          toLowerCase(call.result[i]) = toLowerCase(call.result[j]) => i = j
    /\ InOrderOfFirstAppearance(linesOf(call.args[1]), call.result)

\* C18, amended: no two entries of the list are equal as strings (entries
\* that differ in case only are both kept), every qualifying line is among
\* them, and they stand in the order of their first appearance.
C18_CaseSensitiveUniqueInOrder ==
  ExtractReturned =>
    LET lines == linesOf(call.args[1])
    IN  /\ \A i, j \in 1..Len(call.result) : call.result[i] = call.result[j] => i = j
        /\ \A k \in 1..Len(lines) :
              qualifies(lines[k]) => \E i \in 1..Len(call.result) : call.result[i] = lines[k]
        /\ InOrderOfFirstAppearance(lines, call.result)

\* the lines @H, @h, @H came back as @H, @h
C18_Witness ==
  /\ ExtractReturned
  /\ call.args[1] = join(<< <<"@","H">>, <<"@","h">>, <<"@","H">> >>, <<"\n">>)
  /\ call.result = << <<"@","H">>, <<"@","h">> >>

\* calculateSimilarity was applied and has returned
SimilarityReturned == call.fn = "calculateSimilarity" /\ call.returned

\* the Levenshtein distance by its recurrence: the fewest insertions,
\* deletions and substitutions that turn a into b
RECURSIVE EditDistance(_, _)
EditDistance(a, b) ==
  IF a = <<>> THEN Len(b)
  ELSE IF b = <<>> THEN Len(a)
  ELSE LET del == EditDistance(Tail(a), b) + 1
           ins == EditDistance(a, Tail(b)) + 1
           sub == EditDistance(Tail(a), Tail(b)) + (IF Head(a) = Head(b) THEN 0 ELSE 1)
       IN  IF del <= ins /\ del <= sub THEN del ELSE IF ins <= sub THEN ins ELSE sub

\* C19: calculateSimilarity(a, b) is 1 when a and b are equal after case
\* folding, and (L - d) / L otherwise, L the length of the longer folded
\* string and d the Levenshtein distance of the folded strings.
C19_SimilarityIsNormalizedDistance ==
  SimilarityReturned =>
    LET a == toLowerCase(call.args[1])
        b == toLowerCase(call.args[2])
        L == IF Len(a) >= Len(b) THEN Len(a) ELSE Len(b)
        d == EditDistance(a, b)
    IN  IF a = b THEN call.result[1] = call.result[2]
        ELSE call.result[1] * L = (L - d) * call.result[2]

\* applied to strings of different length that differ in case and by one
\* edit: "Ab" and "a" give 1/2
C19_Witness ==
  /\ SimilarityReturned
  /\ call.args = << <<"A","b">>, <<"a">> >>
  /\ call.result = <<1, 2>>

\* C20: calculateSimilarity(a, b) = calculateSimilarity(b, a).
C20_SimilaritySymmetric ==
  SimilarityReturned =>
    call.result = calculateSimilarity(call.args[2], call.args[1])

\* applied to the empty string and "ab", and to two strings of equal length
C20_Witness ==
  /\ SimilarityReturned
  /\ \/ call.args = << <<>>, <<"a","b">> >> /\ call.result = Zero
     \/ call.args = << <<"a","b">>, <<"b","b">> >> /\ call.result = <<1, 2>>

ScoreReturned == call.fn = "scorePlaceCandidates" /\ call.returned

\* a scored place without its score
Unscored(e) ==
  [name |-> e.name, address |-> e.address, lat |-> e.lat, lng |-> e.lng,
   place_id |-> e.place_id, rating |-> e.rating, types |-> e.types]

\* the one-to-one maps of 1..n onto itself
PermutationsOf(n) == {p \in [1..n -> 1..n] : \A i, j \in 1..n : i # j => p[i] # p[j]}

\* C21: the output of scorePlaceCandidates is a permutation of the input
\* places, sorted non-increasing by score, and places of equal score keep
\* their relative input order.
C21_StableSortedPermutation ==
  ScoreReturned =>
    LET places == call.args[2]
        out    == call.result
    IN  /\ Len(out) = Len(places)
        /\ \E p \in PermutationsOf(Len(places)) :
             /\ \A i \in 1..Len(out) : Unscored(out[i]) = places[p[i]]
             /\ \A i, j \in 1..Len(out) :
                  i < j => /\ FracGE(out[i].score, out[j].score)
                           /\ out[i].score = out[j].score => p[i] < p[j]

\* three different places come back, the first two with the same score and in
\* their input order, although the input had a lower-scored place before them
C21_Witness ==
  /\ ScoreReturned
  /\ Len(call.result) = 3
  /\ call.result[1].score = call.result[2].score
  /\ FracGT(call.result[2].score, call.result[3].score)
  /\ call.result[1].place_id # call.result[2].place_id
  /\ Unscored(call.result[3]) = call.args[2][1]
  /\ Unscored(call.result[1]) = call.args[2][2]

\* the greatest similarity of a candidate of the list to a name
BestSimilarity(candidates, name) ==
  LET sims == {calculateSimilarity(candidates[i], name) : i \in 1..Len(candidates)}
  IN  CHOOSE s \in sims : \A t \in sims : FracGE(s, t)

\* one of the types of the place contains a food keyword
HasFoodType(e) ==
  /\ IsSome(e.types)
  /\ \E t \in 1..Len(Get(e.types)) :
       \E k \in 1..Len(FOOD_KEYWORDS) : includes(Get(e.types)[t], FOOD_KEYWORDS[k])

\* C23: for a non-empty candidate list the score of a place is the greatest
\* similarity of a candidate to its name, plus 1/10 once if one of its types
\* contains a food keyword, plus 1/10 once if its rating is present and
\* strictly above 4.0; the bonuses are added once however many candidates.
C23_ScoreIsBestSimilarityPlusBonuses ==
  (ScoreReturned /\ call.args[1] # <<>>) =>
    \A i \in 1..Len(call.result) :
      LET e    == call.result[i]
          best == BestSimilarity(call.args[1], e.name)
          food == IF HasFoodType(e) THEN FracAdd(best, Bonus) ELSE best
      IN  e.score = IF IsSome(e.rating) /\ Get(e.rating) > 40
                    THEN FracAdd(food, Bonus) ELSE food

\* two candidates were scored against a place rated exactly 4.0, which gets
\* the bare similarity, and against a place with two food types and a rating
\* of 4.5, which gets two bonuses and no more
C23_Witness ==
  /\ ScoreReturned
  /\ Len(call.args[1]) = 2
  /\ call.args[1][1] # call.args[1][2]
  /\ \E i, j \in 1..Len(call.result) :
       /\ call.result[i].rating = Some(40)
       /\ call.result[i].score = Frac(3, 5)
       /\ call.result[j].rating = Some(45)
       /\ Len(Get(call.result[j].types)) = 2
       /\ call.result[j].score = Frac(12, 10)

FramesReturned == call.fn = "extractFrames" /\ call.returned

\* C22: extractFrames returns at least 3 and at most 5 frames, whatever
\* thumbnail requests fail.
C22_ThreeToFiveFrames ==
  FramesReturned => Len(call.result) >= 3 /\ Len(call.result) <= 5

\* the score the scorer owes a place for a list of candidates
ExpectedScore(candidates, place) ==
  LET best == BestSimilarity(candidates, place.name)
      food == IF HasFoodType(place) THEN FracAdd(best, Bonus) ELSE best
  IN  IF IsSome(place.rating) /\ Get(place.rating) > 40 THEN FracAdd(food, Bonus) ELSE food

\* the run is past its search loop and has scored places
Scored(run) ==
  run.pc \in {"insert_restaurant", "upd_done", "insert_cache", "upd_review", "done"}
  /\ run.scoredPlaces # <<>>

\* C24: the place search is called at most 3 times, for the first min(3, k)
\* of the k candidates in extraction order and for no other candidate, and
\* the scorer is run over all k candidates against the accumulated places.
C24_SearchFirstThreeScoreAll ==
  \A r \in Slots :
    LET run == runs[r]
        k   == Len(run.candidates)
    IN  /\ Len(run.searched) <= 3
        /\ Len(run.searched) <= k
        /\ \A j \in 1..Len(run.searched) : run.searched[j].candidate = run.candidates[j]
        /\ Scored(run) =>
             /\ Len(run.searched) = IF k < 3 THEN k ELSE 3
             /\ Len(run.scoredPlaces) = Len(run.allPlaces)
             /\ \A i \in 1..Len(run.scoredPlaces) :
                  run.scoredPlaces[i].score = ExpectedScore(run.candidates, run.scoredPlaces[i])

\* four candidates were extracted, the first three searched, and the place
\* confirmed owes its score of 1 to the fourth
C24_Witness ==
  \E r \in Slots :
    /\ runs[r].pc = "done"
    /\ runs[r].resp.status = "confirmed"
    /\ Len(runs[r].candidates) = 4
    /\ Len(runs[r].searched) = 3
    /\ runs[r].topPlaces[1].score = One
    /\ \A j \in 1..3 : ExpectedScore(<<runs[r].candidates[j]>>, runs[r].topPlaces[1]) # One

\* the row is the cache entry of the winning candidate of the run: the key is
\* a candidate that gives the confirmed place its score, case-folded, with
\* the locality of the request, and the place is the confirmed place
WinningEntry(run, row) ==
  LET bestMatch == run.topPlaces[1]
  IN  /\ \E j \in 1..Len(run.candidates) :
           /\ ExpectedScore(<<run.candidates[j]>>, bestMatch) = bestMatch.score
           /\ row.normalized_query = toLowerCase(run.candidates[j])
      /\ row.country = run.req.body.country
      /\ row.city = run.req.body.city
      /\ row.place_id = bestMatch.place_id
      /\ row.name = bestMatch.name
      /\ row.address = bestMatch.address
      /\ row.lat = bestMatch.lat
      /\ row.lng = bestMatch.lng
      /\ row.score = bestMatch.score

\* C25: an auto-confirmation whose cache insert is accepted writes exactly
\* one cache entry, and it is the entry of the winning candidate with the
\* locality of the request and the confirmed place; no other step writes the
\* cache.
C25_CacheEntryOfWinner ==
  [][/\ \A r \in Slots :
          (runs[r].pc = "insert_cache" /\ runs'[r].pc = "done"
           /\ "place_cache" \notin runs'[r].failedWrites) =>
             /\ Len(place_cache') = Len(place_cache) + 1
             /\ SubSeq(place_cache', 1, Len(place_cache)) = place_cache
             /\ WinningEntry(runs'[r], place_cache'[Len(place_cache')])
     /\ place_cache' # place_cache =>
          \E r \in Slots : runs[r].pc = "insert_cache" /\ runs'[r].pc = "done"]_vars

\* C26: every media row whose status is done has a restaurant_id, so
\* pollMediaStatus never reports confirmed without a restaurant_id.
C26_DoneHasRestaurant ==
  \A m \in MediaIds :
    IsSome(media[m]) =>
      LET row == Get(media[m])
          res == pollMediaStatusRead(row)
      IN  /\ row.status = "done" => IsSome(row.restaurant_id)
          /\ (IsSome(res) /\ Get(res).status = "confirmed") => IsSome(Get(res).restaurant_id)

\* C27: a pollOCRStatus call begun after process-ocr has answered for an
\* existing item ends within its 60 status reads, by returning done or by throwing
\* 'OCR processing failed', and never in 'OCR processing timeout'.
C27_PollEndsAfterProcessing ==
  /\ poll.attempt <= maxAttempts
  /\ (poll.processed /\ poll.pc = "threw") => poll.error = "OCR processing failed"
  /\ (poll.processed /\ poll.pc = "returned") => poll.status = "done"

\* no invocation of process_media is between its request and its response
AllFinished == \A r \in Slots : runs[r].pc \in {"idle", "done"}

\* every restaurant row was created by a run that found its media item
CreatedForItems == \A i \in 1..Len(restaurants) : IsSome(restaurants[i].created_by)

\* C28: once all runs have finished (each for a media item that existed when
\* it ran), every restaurant row created by an auto-confirmation is
\* referenced by the restaurant_id of a media item, and a confirmed response
\* names the restaurant its media item is linked to.
C28_NoOrphanRestaurants ==
  (AllFinished /\ CreatedForItems) =>
    /\ \A i \in 1..Len(restaurants) :
         \E m \in MediaIds : IsSome(media[m]) /\ Get(media[m]).restaurant_id = Some(i)
    /\ \A r \in Slots :
         (runs[r].pc = "done" /\ runs[r].resp.status = "confirmed") =>
            Get(media[Get(runs[r].req.body.media_id)]).restaurant_id = runs[r].resp.restaurant_id

\* C29: the candidates of a needs_confirmation response never hold two
\* entries with the same place_id.
C29_DistinctPlaceIds ==
  \A r \in Slots :
    (runs[r].pc = "done" /\ runs[r].resp.status = "needs_confirmation") =>
      LET cs == Get(runs[r].resp.candidates)
      IN  \A i, j \in 1..Len(cs) : i # j => cs[i].place_id # cs[j].place_id

\* the frame texts of the run joined as the handler joins them, before the
\* lower-casing
OriginalText(run) == join([i \in 1..Len(run.ocrResults) |-> run.ocrResults[i].text], <<" ">>)

\* C30: every line that extractPOICandidates accepts on the aggregated text
\* as the frames gave it (a Title Case name without keyword, '@' or '#' among
\* them) is a candidate of the run, up to case.
C30_LowerCasingKeepsCandidates ==
  \A r \in Slots :
    runs[r].pc \notin {"idle", "ocr"} =>
      LET accepted == extractPOICandidates(OriginalText(runs[r]))
      IN  \A i \in 1..Len(accepted) :
            \E j \in 1..Len(runs[r].candidates) :
              toLowerCase(runs[r].candidates[j]) = toLowerCase(accepted[i])

=============================================================================
